---- MODULE Spec2Model ----
(***************************************************************************)
(* St Mewan Parish Council calendar scraper (generate_ics.py).             *)
(*                                                                         *)
(* Texts read from the web pages (heading, paragraph, link text, href)     *)
(* are sequences of one-character strings, so that the regular             *)
(* expressions and strptime formats of the program are modelled by what    *)
(* they accept.  Lines written to the calendar file are strings.           *)
(***************************************************************************)
EXTENDS Integers, Sequences, FiniteSets, TLC

VARIABLES
    today,            \* date.today()
    pc,               \* control position of the running function
    date_str,         \* parse_event_date / loop local: heading text
    event_date,       \* parse_event_date result / loop local
    minutes_divs,     \* extract_events_from_html: the div.minutes fragments
    meeting_type,     \* extract_events_from_html: argument
    ndone,            \* extract_events_from_html: fragments iterated so far
    stage,            \* extract_events_from_html: how the last iteration ended
    start_dt,         \* loop local
    end_dt,           \* loop local
    end_time_str,     \* loop local
    ics_events,       \* extract_events_from_html: result list
    site,             \* the web site: what a GET of each meeting page gives
    disk,             \* whether open()/write() of the output file succeeds
    run,              \* which run of main this is (1 or 2)
    midx,             \* main: number of MEETING_TYPES entries iterated
    events,           \* main: local, what the last fetch_meeting_events gave
    all_events,       \* main: local list
    failed_meetings,  \* main: local list
    requests,         \* the GET requests issued so far in this run
    file,             \* content of OUTPUT_FILE on disk
    file_at_start,    \* content of OUTPUT_FILE when the run started
    ical_content,     \* main: local, the generated document
    exit_status,      \* exit status of the run
    first             \* what the first run left: exit status, document, file

vars == <<today, pc, date_str, event_date, minutes_divs, meeting_type, ndone,
          stage, start_dt, end_dt, end_time_str, ics_events, site, disk, run,
          midx, events, all_events, failed_meetings, requests, file,
          file_at_start, ical_content, exit_status, first>>

dateVars == <<date_str, event_date>>
loopVars == <<minutes_divs, meeting_type, ndone, stage, start_dt, end_dt,
              end_time_str, ics_events>>
mainVars == <<site, disk, run, midx, events, all_events, failed_meetings, requests,
              file, file_at_start, ical_content, exit_status, first>>

\* Python's None: for an optional date, datetime or match object, and for an
\* optional text or file
None == [none |-> TRUE]
NoStr == <<"None">>
Absent == <<"(absent)">>

----------------------------------------------------------------------------
(* Program constants *)

DEFAULT_MEETING_DURATION_HOURS == 1
YEAR_THRESHOLD == 50
BASE_URL == <<"h","t","t","p","s",":","/","/","w","w","w",".","s","t","m","e","w",
              "a","n","p","a","r","i","s","h","c","o","u","n","c","i","l",".",
              "g","o","v",".","u","k">>
TIMEZONE == "Europe/London"

----------------------------------------------------------------------------
(* Bounds of the model *)

MaxFrags == 2        \* fragments per fetched page
MaxSources == 2      \* entries of MEETING_TYPES that are modelled
FirstYear == 1990    \* current years tried by the date parser check
LastYear == 2110

----------------------------------------------------------------------------
(* Characters *)

Digits == <<"0","1","2","3","4","5","6","7","8","9">>
IsDigit(c) == \E n \in 1..10 : Digits[n] = c
DigitVal(c) == CHOOSE n \in 0..9 : Digits[n + 1] = c
Letters == {"J","a","n","F","e","b","u","j","N","o","t","x","A","g","d",
            "M","i","s","p","h","w","m","r","f","D","c"}
\* \w of the re module
IsWord(c) == IsDigit(c) \/ c \in Letters \/ c = "_"
\* str.lower() on the letters of the model's alphabet
Lower(c) ==
    CASE c = "J" -> "j" [] c = "F" -> "f" [] c = "N" -> "n"
      [] c = "A" -> "a" [] c = "M" -> "m" [] c = "D" -> "d" [] OTHER -> c

IsSpace(c) == c = " "

RECURSIVE LStrip(_)
LStrip(s) == IF s # <<>> /\ IsSpace(Head(s)) THEN LStrip(Tail(s)) ELSE s
RECURSIVE RStrip(_)
RStrip(s) ==
    IF s # <<>> /\ IsSpace(s[Len(s)]) THEN RStrip(SubSeq(s, 1, Len(s) - 1)) ELSE s
\* get_text(strip=True), str.strip()
Strip(s) == RStrip(LStrip(s))

\* s[i..] begins with the literal lit
StartsWithAt(s, i, lit) ==
    /\ Len(s) >= i + Len(lit) - 1
    /\ \A k \in 1..Len(lit) : s[i + k - 1] = lit[k]

\* the substring test  lit in s
Contains(s, lit) == \E i \in 1..(Len(s) + 1) : StartsWithAt(s, i, lit)

\* the characters of a text as one string
RECURSIVE Join(_)
Join(s) == IF s = <<>> THEN "" ELSE Head(s) \o Join(Tail(s))

----------------------------------------------------------------------------
(* datetime.date, datetime.datetime, timedelta *)

IsLeap(y) == (y % 4 = 0 /\ y % 100 # 0) \/ y % 400 = 0

DaysInMonth(y, m) ==
    IF m = 2 THEN (IF IsLeap(y) THEN 29 ELSE 28)
    ELSE IF m \in {4, 6, 9, 11} THEN 30 ELSE 31

\* date(y, m, d): the date, or None where the constructor raises ValueError
date(y, m, d) ==
    IF y >= 1 /\ y <= 9999 /\ m >= 1 /\ m <= 12 /\ d >= 1 /\ d <= DaysInMonth(y, m)
    THEN [year |-> y, month |-> m, day |-> d]
    ELSE None

\* <= for <
DateLessOrEqual(a, b) ==
    \/ a.year < b.year
    \/ a.year = b.year /\ a.month < b.month
    \/ a.year = b.year /\ a.month = b.month /\ a.day <= b.day

\* date.__lt__
DateLess(a, b) ==
    \/ a.year < b.year
    \/ a.year = b.year /\ a.month < b.month
    \/ a.year = b.year /\ a.month = b.month /\ a.day < b.day

NextDay(d) ==
    IF d.day < DaysInMonth(d.year, d.month)
    THEN [d EXCEPT !.day = d.day + 1]
    ELSE IF d.month < 12
         THEN [year |-> d.year, month |-> d.month + 1, day |-> 1]
         ELSE [year |-> d.year + 1, month |-> 1, day |-> 1]

\* dt + timedelta(hours=h), for 0 <= h <= 24
AddHours(dt, h) ==
    IF dt.hour + h < 24
    THEN [dt EXCEPT !.hour = dt.hour + h]
    ELSE LET n == NextDay([year |-> dt.year, month |-> dt.month, day |-> dt.day])
         IN  [year |-> n.year, month |-> n.month, day |-> n.day,
              hour |-> dt.hour + h - 24, minute |-> dt.minute]

----------------------------------------------------------------------------
(* parse_event_date *)

\* re.match(r'(\d{1,2}) (\w{3}) (\d{2})', s): the groups, or None
MatchDate(s) ==
    LET n == IF Len(s) >= 3 /\ IsDigit(s[1]) /\ IsDigit(s[2]) /\ s[3] = " " THEN 2
             ELSE IF Len(s) >= 2 /\ IsDigit(s[1]) /\ s[2] = " " THEN 1
             ELSE 0
    IN  IF /\ n > 0
           /\ Len(s) >= n + 7
           /\ \A k \in (n + 2)..(n + 4) : IsWord(s[k])
           /\ s[n + 5] = " "
           /\ IsDigit(s[n + 6])
           /\ IsDigit(s[n + 7])
        THEN [day |-> SubSeq(s, 1, n), month |-> SubSeq(s, n + 2, n + 4),
              year |-> SubSeq(s, n + 6, n + 7)]
        ELSE None

MonthNames == <<"jan","feb","mar","apr","may","jun","jul","aug","sep","oct","nov","dec">>

\* datetime.strptime(month, "%b").month, or 0 on ValueError
\* (the %b directive matches the abbreviations ignoring case)
MonthNumber(month) ==
    LET low == Join([k \in 1..Len(month) |-> Lower(month[k])])
    IN  IF \E m \in 1..12 : MonthNames[m] = low
        THEN CHOOSE m \in 1..12 : MonthNames[m] = low
        ELSE 0

\* int() of a text of decimal digits
RECURSIVE IntOf(_)
IntOf(s) == IF s = <<>> THEN 0 ELSE 10 * IntOf(SubSeq(s, 1, Len(s) - 1)) + DigitVal(s[Len(s)])

\* the century rule with <= for <
YearFullLE(year_2digit, current_year) ==
    LET current_century == (current_year \div 100) * 100
        current_2digit == current_year % 100
    IN  IF year_2digit <= current_2digit - YEAR_THRESHOLD
        THEN current_century + 100 + year_2digit
        ELSE current_century + year_2digit

\* the threshold added instead of subtracted
YearFullPlus(year_2digit, current_year) ==
    LET current_century == (current_year \div 100) * 100
        current_2digit == current_year % 100
    IN  IF year_2digit < current_2digit + YEAR_THRESHOLD
        THEN current_century + 100 + year_2digit
        ELSE current_century + year_2digit

\* the century rule, lines 80-91
YearFull(year_2digit, current_year) ==
    LET current_century == (current_year \div 100) * 100
        current_2digit == current_year % 100
    IN  IF year_2digit < current_2digit - YEAR_THRESHOLD
        THEN current_century + 100 + year_2digit
        ELSE current_century + year_2digit

parse_event_date(s, now) ==
    LET match == MatchDate(s)
    IN  IF match = None THEN None
        ELSE LET month_number == MonthNumber(match.month)
             IN  IF month_number = 0 THEN None
                 ELSE date(YearFull(IntOf(match.year), now.year),
                           month_number, IntOf(match.day))

----------------------------------------------------------------------------
(* parse_time_range and the strptime of a time of day *)

\* length of the match of \d{1,2}:\d{2} at position i of s, 0 if none
MatchTimeAt(s, i) ==
    LET n == IF Len(s) >= i + 2 /\ IsDigit(s[i]) /\ IsDigit(s[i + 1]) /\ s[i + 2] = ":" THEN 2
             ELSE IF Len(s) >= i + 1 /\ IsDigit(s[i]) /\ s[i + 1] = ":" THEN 1
             ELSE 0
    IN  IF n > 0 /\ Len(s) >= i + n + 2 /\ IsDigit(s[i + n + 1]) /\ IsDigit(s[i + n + 2])
        THEN n + 3
        ELSE 0

To == <<" ","t","o"," ">>

parse_time_range(s) ==
    LET a == MatchTimeAt(s, 1)
        b == IF a > 0 /\ StartsWithAt(s, a + 1, To) THEN MatchTimeAt(s, a + 5) ELSE 0
    IN  IF a > 0 /\ b > 0
        THEN <<SubSeq(s, 1, a), SubSeq(s, a + 5, a + 4 + b)>>
        ELSE IF a > 0 THEN <<SubSeq(s, 1, a), NoStr>>
        ELSE <<NoStr, NoStr>>

\* datetime.strptime(f"{d} {t}", "%Y-%m-%d %H:%M") for a date d and a text t
\* that matched \d{1,2}:\d{2}: %H accepts 2[0-3]|[0-1]\d|\d, %M accepts
\* [0-5]\d|\d, and the whole text must be consumed.  None on ValueError.
strptime(d, t) ==
    LET colon == IF t[2] = ":" THEN 2 ELSE 3
        H == SubSeq(t, 1, colon - 1)
        M == SubSeq(t, colon + 1, Len(t))
        okH == \/ Len(H) = 1
               \/ Len(H) = 2 /\ H[1] = "2" /\ DigitVal(H[2]) <= 3
               \/ Len(H) = 2 /\ H[1] \in {"0", "1"}
        okM == Len(M) = 2 /\ DigitVal(M[1]) <= 5
    IN  IF okH /\ okM
        THEN [year |-> d.year, month |-> d.month, day |-> d.day,
              hour |-> IntOf(H), minute |-> IntOf(M)]
        ELSE None

----------------------------------------------------------------------------
(* make_ics_event *)

Pad2(n) == IF n < 10 THEN "0" \o ToString(n) ELSE ToString(n)

\* dt.strftime('%Y%m%dT%H%M%S') for a year of four digits
strftime(dt) ==
    ToString(dt.year) \o Pad2(dt.month) \o Pad2(dt.day) \o "T"
        \o Pad2(dt.hour) \o Pad2(dt.minute) \o "00"

\* The VEVENT text as its lines.  The description's own newlines start new
\* lines: nothing is escaped.
make_ics_event(dtstart, dtend, summary, description) ==
    <<"BEGIN:VEVENT",
      "DTSTART;TZID=" \o TIMEZONE \o ":" \o strftime(dtstart),
      "DTEND;TZID=" \o TIMEZONE \o ":" \o strftime(dtend),
      "SUMMARY:" \o summary,
      "DESCRIPTION:" \o (IF description = <<>> THEN "" ELSE Head(description))>>
    \o (IF description = <<>> THEN <<>> ELSE Tail(description))
    \o <<"END:VEVENT">>

----------------------------------------------------------------------------
(* extract_events_from_html *)

T_http == <<"h","t","t","p">>
T_Agenda == <<"A","g","e","n","d","a">>
T_Minutes == <<"M","i","n","u","t","e","s">>

\* lines 199-210: the description built from the links of a fragment, as its
\* lines (strip() drops the last newline)
RECURSIVE Description(_)
Description(links) ==
    IF links = <<>> THEN <<>>
    ELSE LET a == Head(links)
             link_url == IF StartsWithAt(a.href, 1, T_http) THEN a.href
                         ELSE BASE_URL \o a.href
         IN  (IF a.href = NoStr \/ a.href = <<>> THEN <<>>
              ELSE (IF Contains(a.text, T_Agenda)
                    THEN <<"Agenda: " \o Join(link_url)>> ELSE <<>>)
                   \o (IF Contains(a.text, T_Minutes)
                       THEN <<"Minutes: " \o Join(link_url)>> ELSE <<>>))
             \o Description(Tail(links))

Skipped(why, ds, ed, ets, sdt, list) ==
    [stage |-> why, date_str |-> ds, event_date |-> ed, end_time_str |-> ets,
     start_dt |-> sdt, end_dt |-> None, ics_events |-> list]

\* an end time that does not parse leaves the meeting without duration
EndOfZero(ed, sdt, ets) ==
    IF ets # NoStr
    THEN (IF strptime(ed, ets) # None THEN strptime(ed, ets) ELSE sdt)
    ELSE AddHours(sdt, DEFAULT_MEETING_DURATION_HOURS)

\* lines 219-230: the end of the meeting
EndOf(ed, sdt, ets) ==
    IF ets # NoStr
    THEN (IF strptime(ed, ets) # None THEN strptime(ed, ets)
          ELSE AddHours(sdt, DEFAULT_MEETING_DURATION_HOURS))
    ELSE AddHours(sdt, DEFAULT_MEETING_DURATION_HOURS)

\* list.insert(0, e)
Prepended(list, e) == <<e>> \o list

\* list.append
Appended(list, e) == Append(list, e)

\* lines 170-233: one iteration of the loop over minutes_divs, for the fragment
\* div and the list built so far; gives the locals and the list afterwards
Iteration(div, mtype, now, list) ==
    IF div.h4 = NoStr THEN Skipped("no_h4", NoStr, None, NoStr, None, list)
    ELSE
    LET ds == Strip(div.h4)
        ed == parse_event_date(ds, now)
    IN
    IF ed = None THEN Skipped("bad_date", ds, None, NoStr, None, list)
    ELSE IF DateLess(ed, now) THEN Skipped("past", ds, ed, NoStr, None, list)
    ELSE IF Len(div.p_tags) = 0 THEN Skipped("no_p", ds, ed, NoStr, None, list)
    ELSE
    LET times == parse_time_range(Strip(div.p_tags[1]))
        sts == times[1]
        ets == times[2]
    IN
    IF sts = NoStr THEN Skipped("bad_time", ds, ed, ets, None, list)
    ELSE
    LET summary == "St Mewan Parish - " \o mtype \o " Meeting"
        description == Description(div.links)
        sdt == strptime(ed, sts)
    IN
    IF sdt = None THEN Skipped("bad_start", ds, ed, ets, None, list)
    ELSE
    LET edt == EndOf(ed, sdt, ets)
    IN  [stage |-> "added", date_str |-> ds, event_date |-> ed,
         end_time_str |-> ets, start_dt |-> sdt, end_dt |-> edt,
         ics_events |-> Appended(list, make_ics_event(sdt, edt, summary, description))]

\* the whole loop, from fragment k on
RECURSIVE LoopFrom(_, _, _, _, _)
LoopFrom(divs, k, mtype, now, list) ==
    IF k > Len(divs) THEN list
    ELSE LoopFrom(divs, k + 1, mtype, now, Iteration(divs[k], mtype, now, list).ics_events)

extract_events_from_html(divs, mtype, now) == LoopFrom(divs, 1, mtype, now, <<>>)

----------------------------------------------------------------------------
(* Texts used as inputs *)

T_8 == <<"8">>
T_29 == <<"2","9">>
T_31 == <<"3","1">>
T_Jan == <<"J","a","n">>
T_Feb == <<"F","e","b">>
T_jun == <<"j","u","n">>

DateToken(day, month, yy) ==
    day \o <<" ">> \o month \o <<" ">> \o <<Digits[(yy \div 10) + 1], Digits[(yy % 10) + 1]>>

\* the two-digit year a date token ends with
TwoDigitOf(s) == 10 * DigitVal(s[Len(s) - 1]) + DigitVal(s[Len(s)])

Todays == {[year |-> 2025, month |-> 6, day |-> 15],
           [year |-> 2099, month |-> 12, day |-> 31]}

\* headings: a date on, before or after one of Todays; a day that does not
\* exist; a month that is no month; a text that is no date; padded with blanks
H_15Jun25 == <<"1","5"," ","J","u","n"," ","2","5">>
H_14Jun25 == <<"1","4"," ","J","u","n"," ","2","5">>
H_31Dec99 == <<"3","1"," ","D","e","c"," ","9","9">>
H_30Dec99 == <<"3","0"," ","D","e","c"," ","9","9">>
H_1Jan00 == <<"1"," ","j","a","n"," ","0","0">>
H_31Jun25 == <<"3","1"," ","J","u","n"," ","2","5">>
H_8Foo25 == <<"8"," ","F","o","o"," ","2","5">>
H_June15 == <<"J","u","n","e"," ","1","5">>
H_Padded == <<" ">> \o H_31Dec99 \o <<" ">>

Headings == {NoStr, H_15Jun25, H_14Jun25, H_31Dec99, H_30Dec99, H_1Jan00,
             H_31Jun25, H_8Foo25, H_June15, H_Padded}
GoodHeadings == {H_15Jun25, H_31Dec99}

\* paragraphs: a single time, ranges whose end is after, at or before the
\* start, ends that are no time of day, a start that is no time of day, a text
\* that is no time, a time whose default end falls on the next day
P_1900 == <<"1","9",":","0","0">>
P_2100 == <<"2","1",":","0","0">>
P_1800 == <<"1","8",":","0","0">>
P_2400 == <<"2","4",":","0","0">>
P_1960 == <<"1","9",":","6","0">>
P_2330 == <<"2","3",":","3","0">>
P_905 == <<"9",":","0","5">>
P_2500 == <<"2","5",":","0","0">>
P_7pm == <<"7","p","m">>
P_9pm == <<"9","p","m">>

Paragraphs == {P_1900, P_2330, P_905, P_2500, P_7pm,
               P_1900 \o To \o P_2100, P_1900 \o To \o P_1800,
               P_1900 \o To \o P_1900, P_1900 \o To \o P_2400,
               P_1900 \o To \o P_1960, P_1900 \o To \o P_9pm,
               P_2330 \o To \o P_905}

L_Agenda == [text |-> T_Agenda, href |-> <<"/","a">>]
L_Minutes == [text |-> T_Minutes \o <<" ">> \o T_Agenda,
              href |-> T_http \o <<":","/","/","x","/","m">>]
L_NoHref == [text |-> T_Agenda, href |-> NoStr]
L_Map == [text |-> <<"M","a","p">>, href |-> <<"/","m">>]

Frag(h, ps, ls) == [h4 |-> h, p_tags |-> ps, links |-> ls]

\* the fragments a page is made of
Fragments ==
    {Frag(h, <<P_1900 \o To \o P_2100>>, <<>>) : h \in Headings}
    \cup {Frag(h, <<p>>, <<>>) : h \in GoodHeadings, p \in Paragraphs}
    \cup {Frag(h, <<>>, <<>>) : h \in GoodHeadings}
    \cup {Frag(H_31Dec99, <<P_1900, P_2100>>, <<L_Agenda, L_NoHref, L_Minutes, L_Map>>)}

\* the fragments of the pages that main fetches: one that is skipped and two
\* that give different events
F_Skip == Frag(H_June15, <<P_1900>>, <<>>)
F_A == Frag(H_31Dec99, <<P_1900>>, <<>>)
F_B == Frag(H_31Dec99, <<P_1900 \o To \o P_2100>>, <<>>)
MainFragments == {F_Skip, F_A, F_B}

\* sequences of length 1..n over S
SeqsUpTo(S, n) == UNION {[1..k -> S] : k \in 1..n}

\* the variables of a function that is not running
LoopIdle ==
    /\ minutes_divs = <<>> /\ meeting_type = "" /\ ndone = 0 /\ stage = ""
    /\ start_dt = None /\ end_dt = None /\ end_time_str = NoStr /\ ics_events = <<>>

MainIdle ==
    /\ site = <<>> /\ disk = "" /\ run = 0 /\ midx = 0 /\ events = <<>>
    /\ all_events = <<>>
    /\ failed_meetings = <<>> /\ requests = <<>> /\ file = Absent
    /\ file_at_start = Absent /\ ical_content = <<>> /\ exit_status = -1
    /\ first = None

----------------------------------------------------------------------------
(* The date parser on its own: parse_event_date applied to one token *)

InitDate ==
    /\ today \in {[year |-> y, month |-> 6, day |-> 15] : y \in FirstYear..LastYear}
    /\ date_str \in {DateToken(d, m, yy) : d \in {T_8, T_29, T_31},
                                           m \in {T_Jan, T_Feb, T_jun},
                                           yy \in 0..99}
    /\ event_date = None
    /\ pc = "parse_event_date"
    /\ LoopIdle
    /\ MainIdle

ParseDate ==
    /\ pc = "parse_event_date"
    /\ event_date' = parse_event_date(date_str, today)
    /\ pc' = "returned"
    /\ UNCHANGED <<today, date_str, loopVars, mainVars>>

NextDate == ParseDate

SpecDate == InitDate /\ [][NextDate]_vars

\* C3: for every current year and two-digit year of a date token that
\* resolves to a date, the year is current_century + 100 + yy when
\* yy < (current year mod 100) - 50 and current_century + yy otherwise, with
\* current_century = current year - (current year mod 100); in 2025 the
\* years 25, 74 and 75 give 2025, 2074 and 2075.
C3_CenturyRule ==
    (pc = "returned" /\ event_date # None) =>
        LET yy == TwoDigitOf(date_str)
            c2 == today.year % 100
            century == today.year - c2
        IN  /\ yy < c2 - 50 => event_date.year = century + 100 + yy
            /\ ~(yy < c2 - 50) => event_date.year = century + yy
            /\ (today.year = 2025 /\ yy \in {25, 74, 75}) => event_date.year = 2000 + yy

\* in 2099 the token "8 Jan 01" resolved into the next century
C3_Witness ==
    /\ pc = "returned" /\ today.year = 2099
    /\ date_str = DateToken(T_8, T_Jan, 1)
    /\ event_date = [year |-> 2101, month |-> 1, day |-> 8]

\* C10: the resolved year lies in Y - 50 .. Y + 99 for the current year Y.
C10_YearRange ==
    (pc = "returned" /\ event_date # None) =>
        /\ event_date.year >= today.year - 50
        /\ event_date.year <= today.year + 99

\* both ends of the range are met: 2050 with "00", and 2100 with "99"
C10_Witness ==
    /\ pc = "returned" /\ event_date # None
    /\ \/ today.year = 2050 /\ event_date.year = 2000
       \/ today.year = 2100 /\ event_date.year = 2199

----------------------------------------------------------------------------------------------------------------------------------------
(* fetch_meeting_events, generate_ical_content, main *)

MeetingNames == <<"Full Council", "Planning", "Extra Ordinary Council",
                  "Finance, Staffing, General Purposes & Audit",
                  "Playing Fields", "Rights of Way">>

\* the entries of MEETING_TYPES that are modelled, by name
MEETING_TYPES ==
    [k \in 1..(IF MaxSources < Len(MeetingNames) THEN MaxSources ELSE Len(MeetingNames))
        |-> MeetingNames[k]]

\* what requests.get and raise_for_status can raise
FetchErrors == {[error |-> "Timeout"], [error |-> "HTTPError"],
                [error |-> "RequestException"]}
Raised(response) == "error" \in DOMAIN response

\* an HTTP error status taken for a success
fetch_meeting_events_lenient(name, response, now) ==
    IF Raised(response) /\ response.error # "HTTPError" THEN <<<<>>, FALSE>>
    ELSE IF Raised(response) THEN <<<<>>, TRUE>>
    ELSE <<extract_events_from_html(response.divs, name, now), TRUE>>

\* lines 247-263; response is the page, or the exception raised
fetch_meeting_events(name, response, now) ==
    IF Raised(response) THEN <<<<>>, FALSE>>
    ELSE <<extract_events_from_html(response.divs, name, now), TRUE>>

\* "".join(events), as lines
RECURSIVE Joined(_)
Joined(evs) == IF evs = <<>> THEN <<>> ELSE Head(evs) \o Joined(Tail(evs))

generate_ical_content(evs) ==
    <<"BEGIN:VCALENDAR",
      "VERSION:2.0",
      "PRODID:-//St Mewan Parish Council//EN",
      "CALSCALE:GREGORIAN",
      "METHOD:PUBLISH",
      "X-WR-TIMEZONE:" \o TIMEZONE>>
    \o Joined(evs)
    \o <<"END:VCALENDAR">>

\* list.extend
Extended(list, evs) == list \o evs

\* the check of line 320 never taken
NoEventsNever(evs) == FALSE

\* line 320
NoEvents(evs) == Len(evs) = 0

\* the file opened for appending
OverwrittenAppending(old, content) == (IF old = Absent THEN <<>> ELSE old) \o content

\* open(OUTPUT_FILE, "w") and f.write(ical_content) when both succeed
Overwritten(old, content) == content

\* a failed write that does not end the run with a failure
StatusAfterWriteZero(outcome) == 0

\* lines 339-345: the exit status after the write was tried
StatusAfterWrite(outcome) == IF outcome = "ok" THEN 0 ELSE 1

----------------
(* The extractor on its own: extract_events_from_html on one page *)

InitExtract ==
    /\ today \in Todays
    /\ minutes_divs \in SeqsUpTo(Fragments, MaxFrags)
    /\ meeting_type = "Planning"
    /\ pc = "loop"
    /\ ndone = 0 /\ stage = "" /\ ics_events = <<>>
    /\ date_str = NoStr /\ event_date = None
    /\ start_dt = None /\ end_dt = None /\ end_time_str = NoStr
    /\ MainIdle

\* one pass through the body of the for loop
LoopStep ==
    /\ pc = "loop"
    /\ ndone < Len(minutes_divs)
    /\ LET r == Iteration(minutes_divs[ndone + 1], meeting_type, today, ics_events)
       IN  /\ stage' = r.stage
           /\ date_str' = r.date_str
           /\ event_date' = r.event_date
           /\ end_time_str' = r.end_time_str
           /\ start_dt' = r.start_dt
           /\ end_dt' = r.end_dt
           /\ ics_events' = r.ics_events
    /\ ndone' = ndone + 1
    /\ UNCHANGED <<today, pc, minutes_divs, meeting_type, mainVars>>

\* return ics_events
LoopReturn ==
    /\ pc = "loop"
    /\ ndone = Len(minutes_divs)
    /\ pc' = "returned"
    /\ UNCHANGED <<today, dateVars, loopVars, mainVars>>

NextExtract == LoopStep \/ LoopReturn

SpecExtract == InitExtract /\ [][NextExtract]_vars

\* the fragment the last iteration was about
LastDiv == minutes_divs[ndone]

\* Days from 0001-01-01 and minutes from its midnight, counted directly
DaysBeforeYear(y) == 365 * (y - 1) + ((y - 1) \div 4) - ((y - 1) \div 100) + ((y - 1) \div 400)
DaysBeforeMonth(y, m) ==
    <<0, 31, 59, 90, 120, 151, 181, 212, 243, 273, 304, 334>>[m]
        + (IF m > 2 /\ ((y % 4 = 0 /\ y % 100 # 0) \/ y % 400 = 0) THEN 1 ELSE 0)
Ordinal(d) == DaysBeforeYear(d.year) + DaysBeforeMonth(d.year, d.month) + d.day
MinuteOf(dt) == (Ordinal(dt) * 24 + dt.hour) * 60 + dt.minute

\* the last event of the list is the one the locals of the iteration describe
LastEventIsLocal ==
    /\ ics_events # <<>>
    /\ ics_events[Len(ics_events)][2] = "DTSTART;TZID=Europe/London:" \o strftime(start_dt)
    /\ ics_events[Len(ics_events)][3] = "DTEND;TZID=Europe/London:" \o strftime(end_dt)
    /\ Ordinal(start_dt) = Ordinal(event_date)

\* C1 (as claimed): every event that is emitted starts strictly before it
\* ends, whatever end time the paragraph carries.
C1_StartBeforeEnd ==
    (ndone > 0 /\ stage = "added") => MinuteOf(start_dt) < MinuteOf(end_dt)

\* C2: no emitted event is dated before the current date, and a fragment
\* dated on the current date is not removed by the date filter.
C2_NoPastEvent ==
    ndone > 0 =>
        /\ stage = "added" => (LastEventIsLocal /\ Ordinal(event_date) >= Ordinal(today))
        /\ Len(ics_events) <= ndone
        /\ (event_date # None /\ Ordinal(event_date) = Ordinal(today)) => stage # "past"
        /\ (event_date # None /\ Ordinal(event_date) < Ordinal(today)) => stage = "past"

\* a fragment dated today was emitted after a past one was dropped
C2_Witness ==
    /\ ndone = 2 /\ stage = "added" /\ event_date = today
    /\ Len(ics_events) = 1
    /\ minutes_divs[1].h4 = H_14Jun25 /\ today.year = 2025

\* the fragment of the last iteration has a date that parses and is not past,
\* and a paragraph whose start time forms a timestamp with it
StartValid(div) ==
    /\ div.h4 # NoStr
    /\ LET ed == parse_event_date(Strip(div.h4), today)
       IN  /\ ed # None
           /\ Ordinal(ed) >= Ordinal(today)
           /\ Len(div.p_tags) > 0
           /\ parse_time_range(Strip(div.p_tags[1]))[1] # NoStr
           /\ strptime(ed, parse_time_range(Strip(div.p_tags[1]))[1]) # None

\* the paragraph of the fragment has no end time, or one that forms no timestamp
EndUnusable(div) ==
    LET ets == parse_time_range(Strip(div.p_tags[1]))[2]
    IN  ets = NoStr \/ strptime(parse_event_date(Strip(div.h4), today), ets) = None

\* C6: a fragment that reaches the builder with a valid start timestamp always
\* yields an event, and when its end time is absent or forms no timestamp the
\* event ends exactly DEFAULT_MEETING_DURATION_HOURS (one hour) after its start.
C6_DefaultDuration ==
    (ndone > 0 /\ StartValid(LastDiv)) =>
        /\ stage = "added"
        /\ LastEventIsLocal
        /\ EndUnusable(LastDiv) => MinuteOf(end_dt) = MinuteOf(start_dt) + 60

\* an end time that is no time of day ("24:00") was replaced by start + 1 hour
C6_Witness ==
    /\ ndone > 0 /\ stage = "added"
    /\ end_time_str = P_2400
    /\ MinuteOf(end_dt) = MinuteOf(start_dt) + 60

----------------------------------------------------------------------------
(* main, run twice on the same web site, date and disk *)

Page(divs) == [ok |-> TRUE, divs |-> divs]
Down == [ok |-> FALSE, divs |-> <<>>]
\* a page lists a meeting once: no fragment twice on a page
Distinct(d) == \A i, j \in 1..Len(d) : d[i] = d[j] => i = j
Pages == {Page(<<>>)}
         \cup {Page(d) : d \in {q \in SeqsUpTo(MainFragments, MaxFrags) : Distinct(q)}}

\* a calendar left on disk by an earlier run
OldFile ==
    generate_ical_content(
        <<make_ics_event([year |-> 2025, month |-> 5, day |-> 1, hour |-> 19, minute |-> 0],
                         [year |-> 2025, month |-> 5, day |-> 1, hour |-> 20, minute |-> 0],
                         "St Mewan Parish - Planning Meeting", <<>>)>>)

MainStart ==
    /\ pc = "main_loop"
    /\ midx = 0 /\ events = <<>> /\ all_events = <<>> /\ failed_meetings = <<>>
    /\ requests = <<>> /\ ical_content = <<>> /\ exit_status = -1

Init ==
    /\ today = [year |-> 2025, month |-> 6, day |-> 15]
    /\ site \in [1..Len(MEETING_TYPES) -> Pages \cup {Down}]
    /\ disk \in {"ok", "open_fails", "write_fails"}
    /\ file \in {Absent, OldFile}
    /\ file_at_start = file
    /\ run = 1
    /\ first = None
    /\ MainStart
    /\ date_str = NoStr /\ event_date = None
    /\ LoopIdle

\* lines 313-317: one pass through the loop over MEETING_TYPES
MainLoopStep ==
    /\ pc = "main_loop"
    /\ midx < Len(MEETING_TYPES)
    /\ LET name == MEETING_TYPES[midx + 1]
       IN  \E response \in (IF site[midx + 1].ok THEN {site[midx + 1]} ELSE FetchErrors) :
               LET r == fetch_meeting_events(name, response, today)
               IN  /\ requests' = Append(requests, name)
                   /\ events' = r[1]
                   /\ all_events' = Extended(all_events, r[1])
                   /\ failed_meetings' = IF r[2] THEN failed_meetings
                                         ELSE Append(failed_meetings, name)
    /\ midx' = midx + 1
    /\ UNCHANGED <<today, pc, dateVars, loopVars, site, disk, run, file,
                   file_at_start, ical_content, exit_status, first>>

\* lines 319-338: after the loop
Validate ==
    /\ pc = "main_loop"
    /\ midx = Len(MEETING_TYPES)
    /\ IF NoEvents(all_events)
       THEN /\ pc' = "exited"
            /\ exit_status' = 1
            /\ UNCHANGED ical_content
       ELSE /\ pc' = "write"
            /\ ical_content' = generate_ical_content(all_events)
            /\ UNCHANGED exit_status
    /\ UNCHANGED <<today, dateVars, loopVars, site, disk, run, midx, events,
                   all_events, failed_meetings, requests, file, file_at_start, first>>

\* lines 339-345.  When open() fails the file is as it was; when the write
\* fails after open() truncated the file, the file is empty or holds a part of
\* the document (here: its header).
Write ==
    /\ pc = "write"
    /\ \/ /\ disk = "ok"
          /\ file' = Overwritten(file, ical_content)
       \/ /\ disk = "open_fails"
          /\ file' = file
       \/ /\ disk = "write_fails"
          /\ \E n \in {0, 6} : file' = SubSeq(ical_content, 1, n)
    /\ exit_status' = StatusAfterWrite(disk)
    /\ pc' = "exited"
    /\ UNCHANGED <<today, dateVars, loopVars, site, disk, run, midx, events,
                   all_events, failed_meetings, requests, file_at_start,
                   ical_content, first>>

\* the program is started again: nothing but the file is left of the first run
Rerun ==
    /\ pc = "exited"
    /\ run = 1
    /\ first' = [exit_status |-> exit_status, ical_content |-> ical_content,
                 file |-> file]
    /\ run' = 2
    /\ file_at_start' = file
    /\ pc' = "main_loop"
    /\ midx' = 0 /\ events' = <<>> /\ all_events' = <<>> /\ failed_meetings' = <<>>
    /\ requests' = <<>> /\ ical_content' = <<>> /\ exit_status' = -1
    /\ UNCHANGED <<today, dateVars, loopVars, site, disk, file>>

Next == MainLoopStep \/ Validate \/ Write \/ Rerun

Spec == Init /\ [][Next]_vars

\* the VEVENT blocks of a calendar document, in the order of the document
RECURSIVE EventsFrom(_, _, _, _)
EventsFrom(lines, inside, cur, acc) ==
    IF lines = <<>> THEN acc
    ELSE IF Head(lines) = "BEGIN:VEVENT"
         THEN EventsFrom(Tail(lines), TRUE, <<Head(lines)>>, acc)
    ELSE IF inside /\ Head(lines) = "END:VEVENT"
         THEN EventsFrom(Tail(lines), FALSE, <<>>, Append(acc, Append(cur, Head(lines))))
    ELSE IF inside THEN EventsFrom(Tail(lines), TRUE, Append(cur, Head(lines)), acc)
    ELSE EventsFrom(Tail(lines), FALSE, cur, acc)
EventsIn(doc) == EventsFrom(doc, FALSE, <<>>, <<>>)

\* what one fragment gives when it is the only one: one event or none
Contribution(div, name) == Iteration(div, name, today, <<>>).ics_events

RECURSIVE PageEvents(_, _)
PageEvents(divs, name) ==
    IF divs = <<>> THEN <<>>
    ELSE Contribution(Head(divs), name) \o PageEvents(Tail(divs), name)

\* the events of the first k sources, in the order of MEETING_TYPES
RECURSIVE ExpectedUpTo(_)
ExpectedUpTo(k) ==
    IF k = 0 THEN <<>>
    ELSE ExpectedUpTo(k - 1)
         \o (IF site[k].ok THEN PageEvents(site[k].divs, MEETING_TYPES[k]) ELSE <<>>)

\* the names of those of the first k sources whose fetch fails
RECURSIVE FailedUpTo(_)
FailedUpTo(k) ==
    IF k = 0 THEN <<>>
    ELSE FailedUpTo(k - 1) \o (IF site[k].ok THEN <<>> ELSE <<MEETING_TYPES[k]>>)

\* C4: a source whose fetch fails adds no event and is named in the failure
\* list, the sources after it are still fetched, and when the loop is left the
\* failure list names exactly the sources whose fetch failed.
C4_FailuresRecorded ==
    run >= 1 =>
        /\ requests = SubSeq(MEETING_TYPES, 1, midx)
        /\ failed_meetings = FailedUpTo(midx)
        /\ (midx > 0 /\ ~site[midx].ok) => events = <<>>
        /\ (\A k \in 1..midx : ~site[k].ok) => all_events = <<>>
        /\ Len(all_events) >= Len(events)
        /\ pc # "main_loop" => (midx = Len(MEETING_TYPES) /\ requests = MEETING_TYPES)

\* the first source failed, the second was fetched and had only a skipped
\* fragment: the list names the first alone
C4_Witness ==
    /\ run = 1 /\ pc = "exited"
    /\ ~site[1].ok /\ site[2] = Page(<<F_Skip>>)
    /\ failed_meetings = <<MEETING_TYPES[1]>>
    /\ Len(requests) = Len(MEETING_TYPES)

\* C5: a run ends with the failure status exactly when no event was collected
\* or the write failed; otherwise it ends with success and the file holds
\* every collected event, also when some source failed.
C5_ExitStatus ==
    (run >= 1 /\ pc = "exited") =>
        /\ exit_status \in {0, 1}
        /\ exit_status = 1 <=> (Len(all_events) = 0 \/ disk # "ok")
        /\ exit_status = 0 => (Len(all_events) > 0 /\ EventsIn(file) = all_events)

\* a run with a failed source ended with success and a written calendar
C5_Witness ==
    /\ run = 1 /\ pc = "exited" /\ exit_status = 0
    /\ failed_meetings # <<>>
    /\ EventsIn(file) = all_events /\ all_events # <<>>

\* C7: the events of the calendar are, source after source in the order of
\* MEETING_TYPES and fragment after fragment in the order of the page, what
\* each fragment gives on its own (one event or none).
C7_DocumentOrder ==
    run >= 1 =>
        /\ (run = 1 /\ midx = 0) =>
               \A k \in 1..Len(MEETING_TYPES) : \A j \in 1..Len(site[k].divs) :
                   Len(Contribution(site[k].divs[j], MEETING_TYPES[k])) <= 1
        /\ pc = "main_loop" => all_events = ExpectedUpTo(midx)
        /\ (pc = "exited" /\ exit_status = 0) =>
               EventsIn(file) = ExpectedUpTo(Len(MEETING_TYPES))

\* a skipped fragment before an event, and two events of one page in the
\* order of the page
C7_Witness ==
    /\ run = 1 /\ pc = "exited" /\ exit_status = 0
    /\ site[1] = Page(<<F_Skip, F_B>>) /\ site[2] = Page(<<F_B, F_A>>)
    /\ Len(EventsIn(file)) = 3

\* C8: a second run on the same pages, fetch outcomes, date and disk ends
\* with the same exit status and the same document as the first; where the
\* disk does not cut the write short the file is the same as well.
C8_Idempotent ==
    (run = 2 /\ pc = "exited") =>
        /\ exit_status = first.exit_status
        /\ ical_content = first.ical_content
        /\ disk # "write_fails" => file = first.file

\* the second run wrote the calendar the first had written
C8_Witness ==
    /\ run = 2 /\ pc = "exited" /\ exit_status = 0
    /\ Len(all_events) >= 2
    /\ file = first.file /\ file = ical_content

====
